---- MODULE Spec2Model ----
(***************************************************************************)
(* Collaborative editing core of perplexi_quest:                           *)
(*   backend/app/collab/session_manager.py  CollaborationSessionManager    *)
(*   backend/app/core/websocket_manager.py  ConnectionManager              *)
(*   backend/app/api/collab_routes.py       websocket_endpoint             *)
(*                                                                         *)
(* One CollaborationSessionManager instance.  Every user drives it through *)
(* one connection task that awaits each handler before it reads the next   *)
(* message (collab_routes.py:52-88), so the calls of one user are          *)
(* sequential and the calls of different users interleave at the await     *)
(* points that do I/O.                                                     *)
(*                                                                         *)
(* session_manager.py calls private helpers whose bodies are not part of   *)
(* the source (_validate_edit_permission, _check_edit_conflict,            *)
(* _handle_edit_conflict, _acquire_section_lock, _apply_edit,              *)
(* _broadcast_edit, _release_user_locks, _persist_session_state,           *)
(* _broadcast_sync_complete, _calculate_state_checksum).  They are         *)
(* modelled from the design document (sections 4.1, 4.3, 5) and marked so  *)
(* where they are defined.                                                 *)
(***************************************************************************)
EXTENDS Naturals, Integers, Sequences, FiniteSets, TLC

\* ---------------------------------------------------------------- bounds
Sessions == {"s1"}
Users == {"A", "B"}
Sections == {"intro", "body"}
EditData == {"d1", "d2"}
\* who creates sessions, and the roles a user asks for at join, in Spec
Owners == {"A"}
JoinRoles(u) == IF u \in Owners THEN {"owner", "viewer"} ELSE {"collaborator", "viewer"}
\* edits are submitted in Spec while fewer activities than this are logged
MaxActs == 1
\* successful persists per session in Spec
MaxSync == 1
\* activities logged in SpecLog beyond the cap of the log
LogOverrun == 3
MaxPending == 3         \* staged pending changes of a session at most
MaxComments == 2        \* comments stored in a session at most
CommentData == {"c1"}
MaxContentLen == 3      \* characters of a conflicting content at most
Chars == {"a", "b", "\n"}
MaxSecond == 2          \* timestamps run over the seconds 0..MaxSecond
MaxFraction == 2        \* and the fractions of a second 1..MaxFraction

\* ------------------------------------------------------ program constants
\* session_manager.py:402-403
ActivityLogCap == 100

\* CollaborationRole, session_manager.py:18-22
Roles == {"owner", "collaborator", "viewer", "reviewer"}

NoUser == "none"
NoData == "empty"
NoCall == [session |-> "none", section |-> "none", data |-> "none"]

VARIABLES
    active_sessions,    \* session_id -> [owner, users, current_state, comments,
                        \*                pending_changes, last_sync]
    user_sessions,      \* user_id -> set of session ids
    session_locks,      \* session_id -> (section_id -> holder)
    recent_activities,  \* session_id -> sequence of activities
    logged,             \* session_id -> number of activities ever logged
    inflight,           \* user_id -> the edit suspended at its broadcast
    active_conflicts,   \* conflict_id -> CollaborationConflict
    ret                 \* the call of the last step and what it returned

vars == <<active_sessions, user_sessions, session_locks, recent_activities,
          logged, inflight, active_conflicts, ret>>

\* ---------------------------------------------------------------- helpers
Put(f, k, v) == [x \in DOMAIN f \cup {k} |-> IF x = k THEN v ELSE f[x]]

Drop(f, k) == [x \in DOMAIN f \ {k} |-> f[x]]

Min(a, b) == IF a < b THEN a ELSE b

Last(q) == q[Len(q)]

Resident(s) == s \in DOMAIN active_sessions

Member(s, u) == Resident(s) /\ u \in DOMAIN active_sessions[s].users

Holder(s, sec) ==
    IF s \in DOMAIN session_locks /\ sec \in DOMAIN session_locks[s]
    THEN session_locks[s][sec] ELSE NoUser

Content(s, sec) ==
    IF Resident(s) THEN active_sessions[s].current_state[sec] ELSE NoData

Event(op, s, u, sec, d, kind, bcast) ==
    [op |-> op, session |-> s, user |-> u, section |-> sec, data |-> d,
     kind |-> kind, bcast |-> bcast]

\* ------------------------------------------------- ConnectionManager facts
\* session_manager.py:174 awaits ConnectionManager.disconnect(group, user_id);
\* websocket_manager.py:16-20 is a plain def(websocket, session_id) that
\* returns None, so the await raises TypeError.
DisconnectRaises == TRUE

\* session_manager.py:374-376 passes three arguments to
\* send_personal_message(message, websocket) (websocket_manager.py:22).
SendSessionStateRaises == TRUE

\* session_manager.py:387 calls connection_manager.broadcast_to_group, which
\* ConnectionManager does not define (websocket_manager.py:6-45).
BroadcastToGroupRaises == TRUE

\* ------------------------------------------------------------ _log_activity
LogActivity_KeepFirst(log, a) ==
    LET app == Append(log, a)
    IN  IF Len(app) > ActivityLogCap
        THEN SubSeq(app, 1, ActivityLogCap)
        ELSE app

\* session_manager.py:389-403: append, then keep the last 100.
LogActivity(log, a) ==
    LET app == Append(log, a)
    IN  IF Len(app) > ActivityLogCap
        THEN SubSeq(app, Len(app) - ActivityLogCap + 1, Len(app))
        ELSE app

Activity(s, u, type) ==
    [seq |-> logged[s] + 1, user |-> u, type |-> type]

\* ----------------------------------------- helpers modelled from the design
\* section 4.4: role-based operation gating, viewers cannot edit
EditRoles == {"owner", "collaborator"}

ValidateEditPermission(s, u, sec) ==
    Member(s, u) /\ active_sessions[s].users[u] \in EditRoles

\* section 4.3 acquire: unlocked, or already held by the same user
CanAcquire(s, sec, u) == Holder(s, sec) \in {NoUser, u}

AcquireSectionLock(s, sec, u) ==
    [session_locks EXCEPT ![s] = Put(session_locks[s], sec, u)]

\* section 4.3 release_all_for_user
ReleaseUserLocks(s, u) ==
    [session_locks EXCEPT ![s] =
        [x \in {y \in DOMAIN session_locks[s] : session_locks[s][y] # u}
            |-> session_locks[s][x]]]

\* section 4.1 step 4: merge edit_data into current_state[section_id]
ApplyEdit(s, sec, d) ==
    [active_sessions EXCEPT ![s].current_state[sec] = d]

\* ------------------------------------------- create_collaborative_session
\* session_manager.py:77-114.  The commit is awaited outside any try block:
\* when it raises, the exception reaches the caller (kind "exception").
CreateSession(s, owner) ==
    /\ ~Resident(s)
    /\ UNCHANGED active_conflicts
    /\ \E db \in {"committed", "raised"} :
        IF db = "raised"
        THEN /\ ret' = Event("create", s, owner, "none", "none", "exception", {})
             /\ UNCHANGED <<active_sessions, user_sessions, session_locks,
                            recent_activities, logged, inflight>>
        ELSE /\ active_sessions' = Put(active_sessions, s,
                    [owner |-> owner,
                     users |-> << >>,
                     current_state |-> [sec \in Sections |-> NoData],
                     comments |-> << >>,
                     pending_changes |-> << >>,
                     last_sync |-> 0])
             /\ session_locks' = Put(session_locks, s, << >>)
             /\ recent_activities' = Put(recent_activities, s, << >>)
             /\ ret' = Event("create", s, owner, "none", "none", "ok", {})
             /\ UNCHANGED <<user_sessions, logged, inflight>>

\* ------------------------------------------------------------ join_session
\* session_manager.py:116-157
JoinSession(s, u, role) ==
    /\ inflight[u] = NoCall
    /\ UNCHANGED active_conflicts
    /\ IF ~Resident(s)
       THEN \* _load_session is a stub; line 137 raises KeyError
            /\ ret' = Event("join", s, u, "none", "none", "false", {})
            /\ UNCHANGED <<active_sessions, user_sessions, session_locks,
                           recent_activities, logged, inflight>>
       ELSE /\ active_sessions' =
                  [active_sessions EXCEPT ![s].users = Put(@, u, role)]
            /\ user_sessions' =
                  Put(user_sessions, u,
                      (IF u \in DOMAIN user_sessions
                       THEN user_sessions[u] ELSE {}) \cup {s})
            /\ IF SendSessionStateRaises \/ BroadcastToGroupRaises
               THEN /\ ret' = Event("join", s, u, "none", "none", "false", {})
                    /\ UNCHANGED <<recent_activities, logged>>
               ELSE /\ recent_activities' =
                        [recent_activities EXCEPT ![s] =
                            LogActivity(@, Activity(s, u, "join_session"))]
                    /\ logged' = [logged EXCEPT ![s] = @ + 1]
                    /\ ret' = Event("join", s, u, "none", "none", "true",
                                    {"join_session"})
            /\ UNCHANGED <<session_locks, inflight>>

\* ----------------------------------------------------------- leave_session
RemoveMember_Forgotten(s, u) == active_sessions

\* session_manager.py:169, del session_data["users"][user_id]
RemoveMember(s, u) ==
    [active_sessions EXCEPT ![s].users = Drop(@, u)]

ForgetSession_KeepEmpty(s, u) ==
    IF u \in DOMAIN user_sessions
    THEN [user_sessions EXCEPT ![u] = @ \ {s}]
    ELSE user_sessions

\* session_manager.py:170-173: the session leaves the user's set, and a set
\* left empty is deleted
ForgetSession(s, u) ==
    IF u \in DOMAIN user_sessions
    THEN IF user_sessions[u] \ {s} = {}
         THEN Drop(user_sessions, u)
         ELSE [user_sessions EXCEPT ![u] = @ \ {s}]
    ELSE user_sessions

\* session_manager.py:159-189
LeaveSession(s, u) ==
    /\ inflight[u] = NoCall
    /\ UNCHANGED active_conflicts
    /\ IF ~Resident(s) \/ ~Member(s, u)
       THEN \* lines 161-165
            /\ ret' = Event("leave", s, u, "none", "none", "false", {})
            /\ UNCHANGED <<active_sessions, user_sessions, session_locks,
                           recent_activities, logged, inflight>>
       ELSE \* lines 168-173
            /\ session_locks' = ReleaseUserLocks(s, u)
            /\ active_sessions' = RemoveMember(s, u)
            /\ user_sessions' = ForgetSession(s, u)
            /\ IF DisconnectRaises \/ BroadcastToGroupRaises
               THEN \* line 174 or 175 raises, lines 187-189 return False
                    /\ ret' = Event("leave", s, u, "none", "none", "false", {})
                    /\ UNCHANGED <<recent_activities, logged>>
               ELSE \* lines 175-186
                    /\ recent_activities' =
                        [recent_activities EXCEPT ![s] =
                            LogActivity(@, Activity(s, u, "leave_session"))]
                    /\ logged' = [logged EXCEPT ![s] = @ + 1]
                    /\ ret' = Event("leave", s, u, "none", "none", "true",
                                    {"leave_session"})
            /\ UNCHANGED inflight

\* --------------------------------------------------- handle_real_time_edit
EditOutcome_NoLockCheck(s, u, sec, conflict, apply) ==
    IF ~ValidateEditPermission(s, u, sec) THEN "perm"
    ELSE IF conflict THEN "conflict"
    ELSE apply

EditOutcome_ConflictFirst(s, u, sec, conflict, apply) ==
    IF conflict THEN "conflict"
    ELSE IF ~ValidateEditPermission(s, u, sec) THEN "perm"
    ELSE IF ~CanAcquire(s, sec, u) THEN "locked"
    ELSE apply

\* session_manager.py:198-225, the order of the checks.  conflict is what
\* _check_edit_conflict answers and apply is what _apply_edit does.
EditOutcome(s, u, sec, conflict, apply) ==
    IF ~ValidateEditPermission(s, u, sec) THEN "perm"
    ELSE IF conflict THEN "conflict"
    ELSE IF ~CanAcquire(s, sec, u) THEN "locked"
    ELSE apply

Rejected == {"perm", "conflict", "locked"}

EditLocks_LockBeforeConflict(s, sec, u, o) ==
    IF o \in {"perm", "locked"} THEN session_locks
    ELSE AcquireSectionLock(s, sec, u)

EditLocks_ReleaseOnApply(s, sec, u, o) ==
    IF o \in Rejected THEN session_locks
    ELSE IF o = "applied"
         THEN [session_locks EXCEPT ![s] = Drop(@, sec)]
         ELSE AcquireSectionLock(s, sec, u)

EditLocks_NoAcquire(s, sec, u, o) == session_locks

\* The lock table after lines 198-225: the lock is taken at line 210 when
\* no earlier check returned, and no later line releases it.
EditLocks(s, sec, u, o) ==
    IF o \in Rejected THEN session_locks
    ELSE AcquireSectionLock(s, sec, u)

EditState_ApplyWhenLocked(s, sec, d, o) ==
    IF o \in {"applied", "locked"} THEN ApplyEdit(s, sec, d) ELSE active_sessions

\* current_state after lines 198-225: _apply_edit runs at line 214 only
EditState(s, sec, d, o) ==
    IF o = "applied" THEN ApplyEdit(s, sec, d) ELSE active_sessions

EditProceeds_Unchecked(o) == o \notin Rejected

\* session_manager.py:214-215: the broadcast and the activity record are
\* reached only when _apply_edit returned a true value.
EditProceeds(o) == o = "applied"

\* session_manager.py:198-216, up to the await of the broadcast
HandleRealTimeEdit(s, u, sec, d) ==
    /\ inflight[u] = NoCall
    /\ UNCHANGED active_conflicts
    /\ \E conflict \in BOOLEAN, apply \in {"applied", "apply_false", "apply_raised"} :
         LET o == EditOutcome(s, u, sec, conflict, apply)
         IN  /\ session_locks' = EditLocks(s, sec, u, o)
             /\ active_sessions' = EditState(s, sec, d, o)
             /\ IF EditProceeds(o)
                THEN /\ inflight' = [inflight EXCEPT ![u] =
                            [session |-> s, section |-> sec, data |-> d]]
                     /\ ret' = Event("edit", s, u, sec, "none", "awaiting", {})
                ELSE /\ ret' = Event("edit", s, u, sec, "none", o, {})
                     /\ UNCHANGED inflight
    /\ UNCHANGED <<user_sessions, recent_activities, logged>>

\* session_manager.py:216-228, from the broadcast on
EditReturns(u) ==
    /\ inflight[u] # NoCall
    /\ UNCHANGED active_conflicts
    /\ LET s == inflight[u].session
           sec == inflight[u].section
           d == inflight[u].data
       IN  \E io \in {"sent", "raised"} :
             IF io = "raised" \/ ~Member(s, u)
             THEN /\ ret' = Event("edit", s, u, sec, "none", "raised", {})
                  /\ UNCHANGED <<recent_activities, logged>>
             ELSE /\ recent_activities' =
                      [recent_activities EXCEPT ![s] =
                          LogActivity(@, Activity(s, u, "edit_content"))]
                  /\ logged' = [logged EXCEPT ![s] = @ + 1]
                  /\ ret' = Event("edit", s, u, sec, d, "ok", {"edit"})
    /\ inflight' = [inflight EXCEPT ![u] = NoCall]
    /\ UNCHANGED <<active_sessions, user_sessions, session_locks>>

\* ----------------------------------------------------- sync_research_state
LocksAfterSync_Release(s) == [session_locks EXCEPT ![s] = << >>]

\* session_manager.py:267-289 does not touch session_locks
LocksAfterSync(s) == session_locks

\* _apply_pending_change (called at session_manager.py:276): the staged
\* mutation is written to its section of current_state.
ApplyPendingChange(state, change) ==
    [state EXCEPT ![change.section] = change.data]

RECURSIVE DrainPending(_, _)
DrainPending_NewestFirst(state, changes) ==
    IF changes = << >> THEN state
    ELSE ApplyPendingChange(DrainPending(state, Tail(changes)), Head(changes))

\* session_manager.py:274-277: the loop walks pending_changes in insertion
\* order, so a later change to a section overwrites an earlier one.
DrainPending(state, changes) ==
    IF changes = << >> THEN state
    ELSE DrainPending(ApplyPendingChange(state, Head(changes)), Tail(changes))

SyncSession_StampFirst(s, io) ==
    [active_sessions[s] EXCEPT
        !.current_state = DrainPending(@, active_sessions[s].pending_changes),
        !.pending_changes = << >>,
        !.last_sync = @ + 1]

\* session_manager.py:272-280: the session after a sync whose I/O went as io.
\* The drain (274-277) precedes the persist call (279); last_sync is stamped
\* (280) only when the persist call returned.
SyncSession(s, io) ==
    [active_sessions[s] EXCEPT
        !.current_state = DrainPending(@, active_sessions[s].pending_changes),
        !.pending_changes = << >>,
        !.last_sync = IF io = "persist_raised" THEN @ ELSE @ + 1]

\* session_manager.py:267-289.  The event's data is the state handed to
\* _persist_session_state (279); sync_complete is broadcast (281) after the
\* persist call and the stamp.
SyncResearchState(s) ==
    IF ~Resident(s)
    THEN /\ ret' = Event("sync", s, "none", "none", "none", "not_found", {})
         /\ UNCHANGED <<active_sessions, user_sessions, session_locks,
                        recent_activities, logged, inflight,
                        active_conflicts>>
    ELSE \E io \in {"ok", "persist_raised", "broadcast_raised"} :
           /\ active_sessions' =
                [active_sessions EXCEPT ![s] = SyncSession(s, io)]
           /\ session_locks' = LocksAfterSync(s)
           /\ ret' = Event("sync", s, "none", "none",
                           SyncSession(s, io).current_state, io,
                           IF io = "ok" THEN {"sync_complete"} ELSE {})
           /\ UNCHANGED <<user_sessions, recent_activities, logged, inflight,
                        active_conflicts>>


\* ----------------------------------------------- add_collaborative_comment
StoreComment_FixedId(comments, c) ==
    IF comments = << >> THEN <<c>>
    ELSE [comments EXCEPT ![Len(comments)] = c]

\* session_manager.py:238, 251-255: the comment is stored in
\* current_state["comments"] under a comment_id made from a fresh uuid; the
\* ids are modelled by the positions of a sequence, a new id being a new
\* position.
StoreComment(comments, c) == Append(comments, c)

\* session_manager.py:237-265 neither reads nor writes session_locks
CommentLocks(s, sec, u) == session_locks

\* session_manager.py:230-265.  users[user_id] (line 239) raises KeyError for
\* a session that is not resident or a user who is not a member.  The comment
\* is stored (255) before the broadcast is awaited (256); the activity record
\* (257-261) follows the broadcast.
AddCollaborativeComment(s, u, sec, d) ==
    IF ~Member(s, u)
    THEN /\ ret' = Event("comment", s, u, sec, "none", "raised", {})
         /\ UNCHANGED <<active_sessions, user_sessions, session_locks,
                        recent_activities, logged, inflight,
                        active_conflicts>>
    ELSE \E io \in {"sent", "raised"} :
           /\ active_sessions' =
                [active_sessions EXCEPT ![s].comments =
                    StoreComment(@, [user |-> u, section |-> sec, content |-> d])]
           /\ session_locks' = CommentLocks(s, sec, u)
           /\ IF io = "raised"
              THEN /\ ret' = Event("comment", s, u, sec, "none", "raised", {})
                   /\ UNCHANGED <<recent_activities, logged>>
              ELSE /\ recent_activities' =
                       [recent_activities EXCEPT ![s] =
                           LogActivity(@, Activity(s, u, "add_comment"))]
                   /\ logged' = [logged EXCEPT ![s] = @ + 1]
                   /\ ret' = Event("comment", s, u, sec,
                                   Len(active_sessions[s].comments) + 1,
                                   "ok", {"comment"})
           /\ UNCHANGED <<user_sessions, inflight, active_conflicts>>

\* ---------------------------------------------------- get_session_analytics
LastN(q, n) == IF Len(q) <= n THEN q ELSE SubSeq(q, Len(q) - n + 1, Len(q))

CountType(log, type) == Cardinality({i \in 1..Len(log) : log[i].type = type})

\* session_manager.py:333-344: the conflicts of the registry that carry the
\* session's id, each with its resolved flag; nothing else is tested.
SessionConflicts(s) ==
    { [conflict_id |-> c.conflict_id,
       section_id |-> c.section_id,
       users |-> <<c.user1_id, c.user2_id>>,
       conflict_type |-> c.conflict_type,
       resolved |-> c.resolved] :
        c \in { active_conflicts[id] :
                  id \in {x \in DOMAIN active_conflicts :
                             active_conflicts[x].session_id = s} } }

\* session_manager.py:295-345: the analytics of a resident session.  Every
\* member is online: join_session sets is_online and nothing clears it.
SessionAnalytics(s) ==
    LET activities == IF s \in DOMAIN recent_activities
                      THEN recent_activities[s] ELSE << >>
    IN  [total_users |-> Cardinality(DOMAIN active_sessions[s].users),
         online_users |-> Cardinality(DOMAIN active_sessions[s].users),
         total_activities |-> Len(activities),
         edit_count |-> CountType(activities, "edit_content"),
         comment_count |-> CountType(activities, "add_comment"),
         active_users |-> active_sessions[s].users,
         recent_activities |-> LastN(activities, 20),
         conflicts |-> SessionConflicts(s)]

ActivitiesAfterAnalytics_Consume(s) ==
    [x \in DOMAIN recent_activities |->
        IF x = s THEN << >> ELSE recent_activities[x]]

\* session_manager.py:296 reads the log with dict.get and keeps it
ActivitiesAfterAnalytics(s) == recent_activities

\* session_manager.py:291-349
GetSessionAnalytics(s) ==
    /\ ret' = IF ~Resident(s)
              THEN Event("analytics", s, "none", "none", "none", "not_found", {})
              ELSE Event("analytics", s, "none", "none", SessionAnalytics(s),
                         "ok", {})
    /\ recent_activities' = ActivitiesAfterAnalytics(s)
    /\ UNCHANGED <<active_sessions, user_sessions, session_locks, logged,
                   inflight, active_conflicts>>


\* ---------------------------------------------- difflib.SequenceMatcher
\* The standard library's matcher, as conflict_resolve.py uses it: no junk
\* function, and sequences far shorter than the 200 elements at which its
\* popularity heuristic starts.  Indices are Python's: 0-based, half-open.

\* find_longest_match: the longest block a[i:i+k] == b[j:j+k] inside
\* a[alo:ahi] and b[blo:bhi]; of the longest, the one starting earliest in a,
\* and of those the one starting earliest in b; (alo, blo, 0) when none.
FindLongestMatch(a, b, alo, ahi, blo, bhi) ==
    LET Same(i, j, k) == \A d \in 0..(k - 1) : a[i + d + 1] = b[j + d + 1]
        cand == { m \in (alo..(ahi - 1)) \X (blo..(bhi - 1))
                           \X (1..Min(ahi - alo, bhi - blo)) :
                     /\ m[1] + m[3] <= ahi
                     /\ m[2] + m[3] <= bhi
                     /\ Same(m[1], m[2], m[3]) }
        Better(m, n) == \/ m[3] > n[3]
                        \/ m[3] = n[3] /\ m[1] < n[1]
                        \/ m[3] = n[3] /\ m[1] = n[1] /\ m[2] <= n[2]
    IN  IF cand = {} THEN <<alo, blo, 0>>
        ELSE CHOOSE m \in cand : \A n \in cand : Better(m, n)

RECURSIVE MatchingBlocksIn(_, _, _, _, _, _)
\* get_matching_blocks around the longest match m of a[alo:ahi] and
\* b[blo:bhi]: the blocks to its left, m, the blocks to its right, in
\* increasing order.  A longest match cannot touch a block beside it, so the
\* merge of adjacent blocks that difflib performs afterwards has nothing to
\* merge.
MatchingBlocksAround(a, b, alo, ahi, blo, bhi, m) ==
    IF m[3] = 0 THEN << >>
    ELSE (IF alo < m[1] /\ blo < m[2]
          THEN MatchingBlocksIn(a, b, alo, m[1], blo, m[2]) ELSE << >>)
         \o <<m>>
         \o (IF m[1] + m[3] < ahi /\ m[2] + m[3] < bhi
             THEN MatchingBlocksIn(a, b, m[1] + m[3], ahi, m[2] + m[3], bhi)
             ELSE << >>)

\* get_matching_blocks inside a[alo:ahi] and b[blo:bhi]
MatchingBlocksIn(a, b, alo, ahi, blo, bhi) ==
    MatchingBlocksAround(a, b, alo, ahi, blo, bhi,
                         FindLongestMatch(a, b, alo, ahi, blo, bhi))

\* get_matching_blocks, with the closing block (len(a), len(b), 0)
GetMatchingBlocks(a, b) ==
    MatchingBlocksIn(a, b, 0, Len(a), 0, Len(b)) \o << <<Len(a), Len(b), 0>> >>

Opcode(tag, i1, i2, j1, j2) ==
    [tag |-> tag, i1 |-> i1, i2 |-> i2, j1 |-> j1, j2 |-> j2]

RECURSIVE OpcodesFrom(_, _, _)
\* the loop of get_opcodes over the matching blocks, from position (i, j)
OpcodesFrom(blocks, i, j) ==
    IF blocks = << >> THEN << >>
    ELSE LET ai == Head(blocks)[1]
             bj == Head(blocks)[2]
             size == Head(blocks)[3]
             gap == IF i < ai /\ j < bj THEN <<Opcode("replace", i, ai, j, bj)>>
                    ELSE IF i < ai THEN <<Opcode("delete", i, ai, j, bj)>>
                    ELSE IF j < bj THEN <<Opcode("insert", i, ai, j, bj)>>
                    ELSE << >>
             same == IF size > 0
                     THEN <<Opcode("equal", ai, ai + size, bj, bj + size)>>
                     ELSE << >>
         IN  gap \o same \o OpcodesFrom(Tail(blocks), ai + size, bj + size)

GetOpcodes(a, b) == OpcodesFrom(GetMatchingBlocks(a, b), 0, 0)

RECURSIVE SumSizes(_)
SumSizes(blocks) ==
    IF blocks = << >> THEN 0 ELSE Head(blocks)[3] + SumSizes(Tail(blocks))

\* ratio() is 2.0 * matches / (len(a) + len(b)), and 1.0 for two empty
\* sequences; the fraction is kept as <<numerator, denominator>>.
Ratio(a, b) ==
    IF Len(a) + Len(b) = 0 THEN <<1, 1>>
    ELSE <<2 * SumSizes(GetMatchingBlocks(a, b)), Len(a) + Len(b)>>

\* p < n/d for a fraction p = <<numerator, denominator>> with d > 0
FracLess(p, n, d) == p[1] * d < n * p[2]

\* lines[i:j]
Slice(q, i, j) == SubSeq(q, i + 1, j)

\* --------------------------------------------------- str and list helpers
\* str > str of Python: the first position that differs decides, and a
\* proper prefix is the smaller.  Characters are numbers here.
StrGreater(x, y) ==
    \E k \in 1..Len(x) :
       /\ \A i \in 1..(k - 1) : i <= Len(y) /\ x[i] = y[i]
       /\ (k > Len(y) \/ x[k] > y[k])

RECURSIVE SplitLines(_)
\* str.splitlines(): the text between line breaks; a line break at the very
\* end opens no further line, and the empty text has no line.
SplitLines(text) ==
    IF text = << >> THEN << >>
    ELSE LET breaks == {i \in 1..Len(text) : text[i] = "\n"}
         IN  IF breaks = {} THEN <<text>>
             ELSE LET k == CHOOSE i \in breaks : \A n \in breaks : i <= n
                  IN  <<SubSeq(text, 1, k - 1)>>
                         \o SplitLines(SubSeq(text, k + 1, Len(text)))

RECURSIVE JoinLines(_)
\* '\n'.join(lines)
JoinLines(lines) ==
    IF lines = << >> THEN << >>
    ELSE IF Len(lines) = 1 THEN lines[1]
    ELSE lines[1] \o <<"\n">> \o JoinLines(Tail(lines))

Whitespace == {" ", "\n"}

\* not line.strip()
IsBlank(line) == \A i \in 1..Len(line) : line[i] \in Whitespace

\* -------------------------------------------------------- ConflictResolver
\* conflict_resolve.py:10-14
ConflictTypes ==
    {"concurrent_edit", "overwrite_conflict", "section_lock_conflict",
     "permission_conflict"}

\* conflict_resolve.py:16-20
Strategies ==
    {"merge_changes", "user_choice", "timestamp_priority", "role_priority"}

\* resolution_preference = None
NoPreference == "none"

\* conflict_resolve.py:33-38
resolution_strategies ==
    [t \in ConflictTypes |->
        CASE t = "concurrent_edit" -> "merge_changes"
          [] t = "overwrite_conflict" -> "user_choice"
          [] t = "section_lock_conflict" -> "timestamp_priority"
          [] t = "permission_conflict" -> "role_priority"]

\* an optional value: None, or the value x
None == << >>

Some(x) == <<x>>

AreChangesCompatible_CountsOnly(lines1, lines2) == Len(lines1) = Len(lines2)

\* conflict_resolve.py:196-205: equal line counts, and every pair of lines
\* that are both non-blank has a ratio of at least 0.5.
AreChangesCompatible(lines1, lines2) ==
    /\ Len(lines1) = Len(lines2)
    /\ \A i \in 1..Len(lines1) :
          (~IsBlank(lines1[i]) /\ ~IsBlank(lines2[i]))
              => ~FracLess(Ratio(lines1[i], lines2[i]), 1, 2)

\* _generate_merge_suggestions_from_analysis (called at
\* conflict_resolve.py:193): one suggestion for each conflict region.
GenerateMergeSuggestionsFromAnalysis(conflicts) ==
    [k \in 1..Len(conflicts) |->
        [line_range |-> conflicts[k].line_range, suggestion |-> "manual_merge"]]

\* conflict_resolve.py:167: the two sides of a replace region are compatible
CompatibleOp(op, lines1, lines2) ==
    AreChangesCompatible(Slice(lines1, op.i1, op.i2), Slice(lines2, op.j1, op.j2))

\* conflict_resolve.py:166-180: the opcodes that are appended to conflicts
ConflictOps(ops, lines1, lines2) ==
    LET IsConflict(op) ==
            op.tag = "replace" /\ ~CompatibleOp(op, lines1, lines2)
    IN  SelectSeq(ops, IsConflict)

\* conflict_resolve.py:166-185: the opcodes that are appended to
\* mergeable_changes
MergeableOps(ops, lines1, lines2) ==
    LET IsMergeable(op) ==
            \/ op.tag = "replace" /\ CompatibleOp(op, lines1, lines2)
            \/ op.tag \in {"insert", "delete"}
    IN  SelectSeq(ops, IsMergeable)

\* conflict_resolve.py:175-180
ConflictEntry(op, lines1, lines2) ==
    [type |-> "incompatible_replace",
     line_range |-> <<op.i1, op.i2>>,
     content1 |-> Slice(lines1, op.i1, op.i2),
     content2 |-> Slice(lines2, op.j1, op.j2)]

\* conflict_resolve.py:168-173, 182-185
MergeableEntry(op, lines1, lines2) ==
    IF op.tag = "replace"
    THEN [type |-> "compatible_replace",
          change1 |-> Slice(lines1, op.i1, op.i2),
          change2 |-> Slice(lines2, op.j1, op.j2)]
    ELSE [type |-> op.tag,
          content |-> IF op.tag = "insert"
                      THEN Slice(lines2, op.j1, op.j2)
                      ELSE Slice(lines1, op.i1, op.i2)]

\* conflict_resolve.py:187-194, for the lists conflicts and mergeable_changes
\* that the loop has built.  confidence is kept as the fraction
\* <<mergeable, max(mergeable + conflicts, 1)>>.
MergeAnalysis(conflicts, mergeable_changes) ==
    LET total == IF Len(mergeable_changes) + Len(conflicts) > 1
                 THEN Len(mergeable_changes) + Len(conflicts) ELSE 1
    IN  [can_auto_merge |->
            Len(conflicts) = 0 /\ FracLess(<<7, 10>>, Len(mergeable_changes), total),
         confidence |-> <<Len(mergeable_changes), total>>,
         mergeable_changes |-> mergeable_changes,
         conflicts |-> conflicts,
         suggestions |-> GenerateMergeSuggestionsFromAnalysis(conflicts)]

\* conflict_resolve.py:165-185: the loop over the opcodes cs that become
\* conflicts and the opcodes ms that become mergeable changes
AnalyzeOpcodes(cs, ms, lines1, lines2) ==
    MergeAnalysis([k \in 1..Len(cs) |-> ConflictEntry(cs[k], lines1, lines2)],
                  [k \in 1..Len(ms) |-> MergeableEntry(ms[k], lines1, lines2)])

\* conflict_resolve.py:161-185, for the lines of the two contents
AnalyzeLines(ops, lines1, lines2) ==
    AnalyzeOpcodes(ConflictOps(ops, lines1, lines2),
                   MergeableOps(ops, lines1, lines2), lines1, lines2)

\* conflict_resolve.py:158-194
AnalyzeChangesForMerging(content1, content2) ==
    AnalyzeLines(GetOpcodes(SplitLines(content1), SplitLines(content2)),
                 SplitLines(content1), SplitLines(content2))

RECURSIVE MergedLines(_, _, _)
\* the loop of conflict_resolve.py:217-226
MergedLines(ops, lines1, lines2) ==
    IF ops = << >> THEN << >>
    ELSE LET op == Head(ops)
             part == CASE op.tag = "equal" -> Slice(lines1, op.i1, op.i2)
                       [] op.tag = "insert" -> Slice(lines2, op.j1, op.j2)
                       [] op.tag = "delete" -> << >>
                       [] op.tag = "replace" ->
                             Slice(lines1, op.i1, op.i2)
                                \o Slice(lines2, op.j1, op.j2)
         IN  part \o MergedLines(Tail(ops), lines1, lines2)

\* conflict_resolve.py:207-227
PerformAutomaticMerge(content1, content2) ==
    JoinLines(MergedLines(GetOpcodes(SplitLines(content1), SplitLines(content2)),
                          SplitLines(content1), SplitLines(content2)))

\* conflict_resolve.py:135-156, for the analysis of line 134
MergeOutcome(content1, content2, merge_analysis) ==
    IF merge_analysis.can_auto_merge
    THEN [merged_content |-> Some(PerformAutomaticMerge(content1, content2)),
          metadata |-> [merge_type |-> "automatic",
                        confidence |-> merge_analysis.confidence,
                        changes_merged |-> merge_analysis.mergeable_changes]]
    ELSE [merged_content |-> None,
          metadata |-> [merge_type |-> "manual_required",
                        conflicts |-> merge_analysis.conflicts,
                        suggestions |-> merge_analysis.suggestions]]

\* conflict_resolve.py:122-156
MergeConflictingChanges(conflict) ==
    MergeOutcome(conflict.content1.content, conflict.content2.content,
                 AnalyzeChangesForMerging(conflict.content1.content,
                                          conflict.content2.content))

\* conflict_resolve.py:276-292, times 1500, for a content shorter than 500
\* characters that holds no '.', '!', '?' or '%': the length score is
\* len/500, the readability score 0.5 and the density score 0.
CalculateContentMetrics(content) ==
    IF content = << >> THEN 0 ELSE Len(content) + 250

\* conflict_resolve.py:255-274
AnalyzeContentQuality(conflict) ==
    IF CalculateContentMetrics(conflict.content1.content)
          > CalculateContentMetrics(conflict.content2.content)
    THEN [preferred_user |-> conflict.user1_id,
          preferred_content |-> conflict.content1.content]
    ELSE [preferred_user |-> conflict.user2_id,
          preferred_content |-> conflict.content2.content]

\* _create_complementary_merge_preview (called at conflict_resolve.py:243):
\* the parts of the two contents that do not conflict, as one text.
CreateComplementaryMergePreview(conflict) ==
    PerformAutomaticMerge(conflict.content1.content, conflict.content2.content)

\* conflict_resolve.py:247-252, for the analysis of line 246
QualitySuggestion(quality_analysis) ==
    [suggestion_id |-> "quality_based",
     preview |-> quality_analysis.preferred_content,
     preferred_user |-> quality_analysis.preferred_user]

\* conflict_resolve.py:229-253
GenerateMergeSuggestions(conflict) ==
    << [suggestion_id |-> "keep_both_attributed",
        preview |-> <<conflict.content1.content, conflict.content2.content>>],
       [suggestion_id |-> "merge_complementary",
        preview |-> CreateComplementaryMergePreview(conflict)],
       QualitySuggestion(AnalyzeContentQuality(conflict)) >>

TimestampWinner_Earlier(conflict) ==
    IF StrGreater(conflict.content2.timestamp, conflict.content1.timestamp)
    THEN 1 ELSE 2

\* conflict_resolve.py:103-108: content1 wins when its timestamp is the
\* greater string, content2 otherwise; a content without a timestamp counts
\* as the empty string.
TimestampWinner(conflict) ==
    IF StrGreater(conflict.content1.timestamp, conflict.content2.timestamp)
    THEN 1 ELSE 2

\* the content and the user of side n of the conflict
Side(conflict, n) ==
    IF n = 1 THEN [content |-> conflict.content1, user |-> conflict.user1_id]
    ELSE [content |-> conflict.content2, user |-> conflict.user2_id]

\* conflict_resolve.py:111-112: the winning side as it is reported
Winner(side) ==
    [resolved_content |-> side.content, winning_user |-> side.user]

RoleRank ==
    [r \in Roles |->
        CASE r = "owner" -> 4 [] r = "reviewer" -> 3
          [] r = "collaborator" -> 2 [] r = "viewer" -> 1]

\* _resolve_by_role_priority (called at conflict_resolve.py:117): the user
\* with the higher role wins, owner > reviewer > collaborator > viewer; equal
\* roles fall back to the timestamps.  The roles of the two users are carried
\* by the conflict as role1 and role2.
ResolveByRolePriority(conflict) ==
    [success |-> TRUE,
     resolution_reason |->
        IF conflict.role1 = conflict.role2
        THEN "timestamp_priority" ELSE "role_priority"]
       @@ Winner(Side(conflict,
                      IF RoleRank[conflict.role1] > RoleRank[conflict.role2] THEN 1
                      ELSE IF RoleRank[conflict.role2] > RoleRank[conflict.role1] THEN 2
                      ELSE TimestampWinner(conflict)))

\* conflict_resolve.py:61-64: ConflictType(...) raises ValueError for a type
\* outside the enum; it is evaluated only when no preference is given.
StrategyLookupRaises(conflict, preference) ==
    preference = NoPreference /\ conflict.conflict_type \notin ConflictTypes

StrategyFor_TableFirst(conflict, preference) ==
    IF conflict.conflict_type \in ConflictTypes
    THEN resolution_strategies[conflict.conflict_type]
    ELSE preference

\* conflict_resolve.py:61-64
StrategyFor(conflict, preference) ==
    IF preference # NoPreference THEN preference
    ELSE resolution_strategies[conflict.conflict_type]

\* conflict_resolve.py:74-78, for the merged_result of line 73
MergeResolution(merged_result) ==
    [success |-> TRUE,
     merged_content |-> merged_result.merged_content,
     merge_metadata |-> merged_result.metadata]

\* conflict_resolve.py:72-118: what the branch of the strategy adds to the
\* result
StrategyResult(conflict, strategy) ==
    CASE strategy = "merge_changes" ->
            MergeResolution(MergeConflictingChanges(conflict))
      [] strategy = "user_choice" ->
            [success |-> FALSE,
             requires_user_input |-> TRUE,
             conflict_options |->
                [option_1 |-> [user_id |-> conflict.user1_id,
                               content |-> conflict.content1],
                 option_2 |-> [user_id |-> conflict.user2_id,
                               content |-> conflict.content2],
                 option_3 |-> [merge_suggestions |->
                                  GenerateMergeSuggestions(conflict)]]]
      [] strategy = "timestamp_priority" ->
            [success |-> TRUE, resolution_reason |-> "timestamp_priority"]
               @@ Winner(Side(conflict, TimestampWinner(conflict)))
      [] strategy = "role_priority" -> ResolveByRolePriority(conflict)

\* conflict_resolve.py:65-120: the result of resolve_conflict when the
\* strategy lookup returned; the timestamp of the result is left out.
ResolutionResult(conflict, preference) ==
    StrategyResult(conflict, StrategyFor(conflict, preference))
       @@ [conflict_id |-> conflict.conflict_id,
           resolution_strategy |-> StrategyFor(conflict, preference),
           resolver |-> "r3tr056"]

\* what resolve_conflict gives its caller: the result, or the ValueError of
\* the lookup
ResolveEvent(conflict, preference) ==
    IF StrategyLookupRaises(conflict, preference)
    THEN Event("resolve", "none", "none", "none",
               [conflict |-> conflict, preference |-> preference,
                result |-> [error |-> "ValueError"]],
               "exception", {})
    ELSE Event("resolve", "none", "none", "none",
               [conflict |-> conflict, preference |-> preference,
                result |-> ResolutionResult(conflict, preference)],
               "ok", {})

\* conflict_resolve.py:56-120.  The conflict is the one of the last event;
\* the method has no try block, so the ValueError of the lookup reaches the
\* caller.
ResolveConflict(preference) ==
    /\ ret.op \in {"conflict", "resolve"}
    /\ ret' = ResolveEvent(ret.data.conflict, preference)
    /\ UNCHANGED <<active_sessions, user_sessions, session_locks,
                   recent_activities, logged, inflight,
                   active_conflicts>>

\* ------------------------------------------------------------- collab_routes
\* collab_routes.py:21, 39, 95: every request constructs the manager that
\* serves it, CollaborationSessionManager(ConnectionManager(), db_session),
\* with the empty state of __init__ (session_manager.py:68-75).  The event
\* carries the sessions that were resident in the manager of the request
\* before.
NewManager ==
    /\ active_sessions' = << >>
    /\ user_sessions' = << >>
    /\ session_locks' = << >>
    /\ recent_activities' = << >>
    /\ logged' = [s \in Sessions |-> 0]
    /\ inflight' = [u \in Users |-> NoCall]
    /\ active_conflicts' = << >>
    /\ ret' = Event("manager", "none", "none", "none",
                    DOMAIN active_sessions, "ok", {})

\* ------------------------------------------------------------ specification
\* CollaborationSessionManager.__init__, session_manager.py:68-75
Init ==
    /\ active_sessions = << >>
    /\ user_sessions = << >>
    /\ session_locks = << >>
    /\ recent_activities = << >>
    /\ logged = [s \in Sessions |-> 0]
    /\ inflight = [u \in Users |-> NoCall]
    /\ active_conflicts = << >>
    /\ ret = Event("init", "none", "none", "none", "none", "none", {})

Next ==
    \/ \E s \in Sessions, u \in Owners : CreateSession(s, u)
    \/ \E s \in Sessions, u \in Users : \E r \in JoinRoles(u) : JoinSession(s, u, r)
    \/ \E s \in Sessions, u \in Users : LeaveSession(s, u)
    \/ \E s \in Sessions, u \in Users, sec \in Sections, d \in EditData :
          /\ logged[s] < MaxActs
          /\ HandleRealTimeEdit(s, u, sec, d)
    \/ \E u \in Users : EditReturns(u)
    \/ \E s \in Sessions :
          /\ Resident(s) => active_sessions[s].last_sync < MaxSync
          /\ SyncResearchState(s)

Spec == Init /\ [][Next]_vars

\* One session with its owner joined, who keeps editing one section: the
\* activity log is driven past its cap.
InitLog ==
    /\ active_sessions = [s \in {"s1"} |->
            [owner |-> "A",
             users |-> [u \in {"A"} |-> "owner"],
             current_state |-> [sec \in Sections |-> NoData],
             comments |-> << >>,
             pending_changes |-> << >>,
             last_sync |-> 0]]
    /\ user_sessions = [u \in {"A"} |-> {"s1"}]
    /\ session_locks = [s \in {"s1"} |-> << >>]
    /\ recent_activities = [s \in {"s1"} |-> << >>]
    /\ logged = [s \in Sessions |-> 0]
    /\ inflight = [u \in Users |-> NoCall]
    /\ active_conflicts = << >>
    /\ ret = Event("join", "s1", "A", "none", "none", "false", {})

NextLog ==
    \/ /\ logged["s1"] < ActivityLogCap + LogOverrun
       /\ HandleRealTimeEdit("s1", "A", "intro", "d1")
    \/ EditReturns("A")

SpecLog == InitLog /\ [][NextLog]_vars

\* The manager itself never stages a pending change; a program embedding it
\* can, through active_sessions[sid]["pending_changes"].  The drain of
\* sync_research_state is exercised from a manager that is empty or holds one
\* session, joined by its owner, with up to MaxPending staged changes.
PendingChange == [section : Sections, data : EditData]

StagedChanges == UNION { [1..k -> PendingChange] : k \in 0..MaxPending }

InitSync ==
    /\ active_sessions \in
          {<< >>} \cup
          { [s \in {"s1"} |->
                [owner |-> "A",
                 users |-> [u \in {"A"} |-> "owner"],
                 current_state |-> [sec \in Sections |->
                                       IF sec = "intro" THEN d ELSE NoData],
                 comments |-> << >>,
                 pending_changes |-> p,
                 last_sync |-> 0]] :
             d \in EditData \cup {NoData}, p \in StagedChanges }
    /\ user_sessions = IF active_sessions = << >> THEN << >>
                       ELSE [u \in {"A"} |-> {"s1"}]
    /\ session_locks = [s \in DOMAIN active_sessions |-> << >>]
    /\ recent_activities = [s \in DOMAIN active_sessions |-> << >>]
    /\ logged = [s \in Sessions |-> 0]
    /\ inflight = [u \in Users |-> NoCall]
    /\ active_conflicts = << >>
    /\ ret = Event("init", "none", "none", "none", "none", "none", {})

NextSync ==
    \E s \in Sessions :
       /\ Resident(s) => active_sessions[s].last_sync < MaxSync
       /\ SyncResearchState(s)

SpecSync == InitSync /\ [][NextSync]_vars

\* Comments and analytics beside edits of one section: the manager starts
\* empty or with session s1 created.
InitComment ==
    /\ active_sessions \in
          { << >>,
            [s \in {"s1"} |->
                [owner |-> "A",
                 users |-> << >>,
                 current_state |-> [sec \in Sections |-> NoData],
                 comments |-> << >>,
                 pending_changes |-> << >>,
                 last_sync |-> 0]] }
    /\ user_sessions = << >>
    /\ session_locks = [s \in DOMAIN active_sessions |-> << >>]
    /\ recent_activities = [s \in DOMAIN active_sessions |-> << >>]
    /\ logged = [s \in Sessions |-> 0]
    /\ inflight = [u \in Users |-> NoCall]
    /\ active_conflicts = << >>
    /\ ret = Event("init", "none", "none", "none", "none", "none", {})

NextComment ==
    \/ \E s \in Sessions, u \in Users : \E r \in JoinRoles(u) : JoinSession(s, u, r)
    \/ \E s \in Sessions, u \in Users : LeaveSession(s, u)
    \/ \E s \in Sessions, u \in Users :
          /\ logged[s] < MaxActs
          /\ HandleRealTimeEdit(s, u, "intro", "d1")
    \/ \E u \in Users : EditReturns(u)
    \/ \E s \in Sessions, u \in Users, sec \in Sections, d \in CommentData :
          /\ Resident(s) => Len(active_sessions[s].comments) < MaxComments
          /\ AddCollaborativeComment(s, u, sec, d)
    \/ \E s \in Sessions : GetSessionAnalytics(s)

SpecComment == InitComment /\ [][NextComment]_vars

\* ConflictResolver is stateless: resolve_conflict is applied to conflicts
\* drawn from bounded sets, beside an empty manager.
Conflict(type, text1, stamp1, role1, text2, stamp2, role2) ==
    [conflict_id |-> "conflict_1", session_id |-> "s1", section_id |-> "intro",
     conflict_type |-> type,
     user1_id |-> "A", content1 |-> [content |-> text1, timestamp |-> stamp1],
     role1 |-> role1,
     user2_id |-> "B", content2 |-> [content |-> text2, timestamp |-> stamp2],
     role2 |-> role2]

\* datetime.isoformat(): the same fixed-width fields down to the second, and
\* the fraction of the second only when it is not zero.
Timestamps ==
    { <<s>> : s \in 0..MaxSecond }
       \cup { <<s, f>> : s \in 0..MaxSecond, f \in 1..MaxFraction }

\* dict.get("timestamp", "") of a content without a timestamp
NoStamp == << >>

Contents == UNION { [1..k -> Chars] : k \in 0..MaxContentLen }

InitManagerEmpty ==
    /\ active_sessions = << >>
    /\ user_sessions = << >>
    /\ session_locks = << >>
    /\ recent_activities = << >>
    /\ logged = [s \in Sessions |-> 0]
    /\ inflight = [u \in Users |-> NoCall]
    /\ active_conflicts = << >>

\* conflicts of every type, and one of an unknown type, between two one-line
\* contents with or without timestamps
InitStamp ==
    /\ InitManagerEmpty
    /\ \E type \in ConflictTypes \cup {"unknown_type"},
          stamp1 \in Timestamps \cup {NoStamp},
          stamp2 \in Timestamps \cup {NoStamp},
          role1 \in {"owner", "viewer"}, role2 \in {"owner", "viewer"} :
          ret = Event("conflict", "none", "none", "none",
                      [conflict |-> Conflict(type, <<"a">>, stamp1, role1,
                                                   <<"b">>, stamp2, role2)],
                      "none", {})

\* concurrent edits of a section with every pair of bounded contents
InitMerge ==
    /\ InitManagerEmpty
    /\ \E text1 \in Contents, text2 \in Contents :
          ret = Event("conflict", "none", "none", "none",
                      [conflict |-> Conflict("concurrent_edit",
                                             text1, <<0>>, "owner",
                                             text2, <<1>>, "collaborator")],
                      "none", {})

NextResolve ==
    \E preference \in Strategies \cup {NoPreference} : ResolveConflict(preference)

SpecStamp == InitStamp /\ [][NextResolve]_vars

SpecMerge == InitMerge /\ [][NextResolve]_vars

\* The manager never writes active_conflicts; a program embedding it fills the
\* registry with CollaborationConflict records (session_manager.py:54-65).
\* Analytics are exercised with session s1 resident and up to two registered
\* conflicts, of this session or another, resolved or not.
RegistryIds == {"k1", "k2"}

CollaborationConflict(id, s, resolved) ==
    [conflict_id |-> id, session_id |-> s, section_id |-> "intro",
     user1_id |-> "A", user2_id |-> "B",
     conflict_type |-> "concurrent_edit", resolved |-> resolved]

InitAnalytics ==
    /\ active_sessions =
          [s \in {"s1"} |->
              [owner |-> "A",
               users |-> << >>,
               current_state |-> [sec \in Sections |-> NoData],
               comments |-> << >>,
               pending_changes |-> << >>,
               last_sync |-> 0]]
    /\ user_sessions = << >>
    /\ session_locks = [s \in {"s1"} |-> << >>]
    /\ recent_activities = [s \in {"s1"} |-> << >>]
    /\ logged = [s \in Sessions |-> 0]
    /\ inflight = [u \in Users |-> NoCall]
    /\ \E ids \in SUBSET RegistryIds,
          of \in [RegistryIds -> {"s1", "s2"}],
          done \in [RegistryIds -> BOOLEAN] :
          active_conflicts =
              [id \in ids |-> CollaborationConflict(id, of[id], done[id])]
    /\ ret = Event("init", "none", "none", "none", "none", "none", {})

NextAnalytics ==
    \/ \E s \in Sessions, u \in Users : \E r \in JoinRoles(u) : JoinSession(s, u, r)
    \/ \E s \in Sessions, u \in Users, sec \in Sections, d \in CommentData :
          /\ Len(active_sessions[s].comments) < MaxComments
          /\ AddCollaborativeComment(s, u, sec, d)
    \/ \E s \in Sessions : GetSessionAnalytics(s)

SpecAnalytics == InitAnalytics /\ [][NextAnalytics]_vars

\* The role of a join is the role query parameter of the real-time endpoint
\* (collab_routes.py:36, 45): every user can ask for every role.  The manager
\* starts empty or with session s1 created.
NextRoles ==
    \/ \E s \in Sessions, u \in Owners : CreateSession(s, u)
    \/ \E s \in Sessions, u \in Users, r \in Roles : JoinSession(s, u, r)
    \/ \E s \in Sessions, u \in Users : LeaveSession(s, u)
    \/ \E s \in Sessions, u \in Users :
          /\ logged[s] < MaxActs
          /\ HandleRealTimeEdit(s, u, "intro", "d1")
    \/ \E u \in Users : EditReturns(u)

SpecRoles == InitComment /\ [][NextRoles]_vars

\* The three entry points of collab_routes.py: create session (13-28), the
\* real-time endpoint (30-88), which calls join_session with the role of the
\* query string, add_collaborative_comment for a comment message and
\* leave_session at a disconnect, and analytics (90-97).  A call that follows
\* no NewManager step is served by the manager of the call before, as the
\* calls of one connection are.
NextRoutes ==
    \/ NewManager
    \/ \E s \in Sessions, u \in Owners : CreateSession(s, u)
    \/ \E s \in Sessions, u \in Users, r \in Roles : JoinSession(s, u, r)
    \/ \E s \in Sessions, u \in Users, sec \in Sections, d \in CommentData :
          /\ Resident(s) => Len(active_sessions[s].comments) < MaxComments
          /\ AddCollaborativeComment(s, u, sec, d)
    \/ \E s \in Sessions, u \in Users : LeaveSession(s, u)
    \/ \E s \in Sessions : GetSessionAnalytics(s)

SpecRoutes == Init /\ [][NextRoutes]_vars

\* ================================================================== claims
CallKinds == Rejected \cup {"apply_false", "apply_raised", "awaiting"}

\* the step is a call of handle_real_time_edit(s, u, sec, _)
EditCall(s, u, sec) ==
    /\ ret'.op = "edit"
    /\ ret'.session = s
    /\ ret'.user = u
    /\ ret'.section = sec
    /\ ret'.kind \in CallKinds

\* the step is a call of leave_session(s, u)
LeaveCall(s, u) ==
    /\ ret'.op = "leave"
    /\ ret'.session = s
    /\ ret'.user = u

\* C1: mutual exclusion.  A section has one holder at most, and a call of
\* handle_real_time_edit by a user other than the holder of the section's
\* lock never acquires the lock: it is rejected and the holder stays.
C1_MutualExclusion ==
    [][ /\ \A s \in DOMAIN session_locks' : \A sec \in DOMAIN session_locks'[s] :
              session_locks'[s][sec] \in Users
        /\ \A s \in Sessions, sec \in Sections, u \in Users :
              (EditCall(s, u, sec) /\ Holder(s, sec) \notin {NoUser, u})
                  => /\ ret'.kind \in Rejected
                     /\ Holder(s, sec)' = Holder(s, sec) ]_vars

C1_Witness ==
    /\ ret.op = "edit"
    /\ ret.kind = "locked"
    /\ Holder(ret.session, ret.section) \notin {NoUser, ret.user}

\* C2: lock cleanup.  A leave_session(s, u) of a member u removes the
\* membership, leaves u no lock in s, broadcasts LEAVE_SESSION and logs one
\* LEAVE_SESSION activity.
C2_LeaveCleansUpAndLogs ==
    [][ \A s \in Sessions, u \in Users :
          (LeaveCall(s, u) /\ Member(s, u))
              => /\ ~Member(s, u)'
                 /\ \A sec \in Sections : Holder(s, sec)' # u
                 /\ "leave_session" \in ret'.bcast
                 /\ logged'[s] = logged[s] + 1
                 /\ Last(recent_activities'[s]).type = "leave_session"
                 /\ Last(recent_activities'[s]).user = u ]_vars

\* C3: lock retention.  When sync_research_state is called after a
\* successful edit of a section by A, the section holds A's edit data and
\* its lock is A's; and a held lock changes hands only when its holder
\* leaves the session.
C3_LockRetention ==
    [][ /\ \A s \in Sessions, sec \in Sections :
              (ret.op = "edit" /\ ret.kind = "ok" /\ ret.session = s
                  /\ ret.section = sec /\ ret'.op = "sync" /\ ret'.session = s)
                  => /\ Content(s, sec)' = ret.data
                     /\ Holder(s, sec)' = ret.user
        /\ \A s \in Sessions, sec \in Sections :
              (Holder(s, sec) # NoUser /\ Holder(s, sec)' # Holder(s, sec))
                  => /\ LeaveCall(s, Holder(s, sec))
                     /\ Holder(s, sec)' = NoUser ]_vars

C3_Witness ==
    /\ ret.op = "sync"
    /\ ret.kind = "ok"
    /\ \E sec \in Sections :
          /\ Holder(ret.session, sec) # NoUser
          /\ Content(ret.session, sec) # NoData
          /\ \E i \in 1..Len(recent_activities[ret.session]) :
                /\ recent_activities[ret.session][i].type = "edit_content"
                /\ recent_activities[ret.session][i].user = Holder(ret.session, sec)

\* C4 as stated: once handle_real_time_edit has returned success for
\* (section, user), the section is no longer locked by that user.
C4_LockReleasedOnApply ==
    (ret.op = "edit" /\ ret.kind = "ok")
        => Holder(ret.session, ret.section) # ret.user

\* C4 amended: once handle_real_time_edit has returned success for
\* (section, user), the section is still locked by that user.
C4_LockKeptOnApply ==
    (ret.op = "edit" /\ ret.kind = "ok")
        => Holder(ret.session, ret.section) = ret.user

C4_Witness ==
    /\ ret.op = "edit"
    /\ ret.kind = "ok"
    /\ Content(ret.session, ret.section) = ret.data

C6_IdempotentLeave ==
    [][ \A s \in Sessions, u \in Users :
          LeaveCall(s, u)
              => /\ ~Member(s, u)'
                 /\ ~Member(s, u)
                       => /\ ret'.kind = "false"
                          /\ ret'.bcast = {}
                          /\ UNCHANGED <<active_sessions, user_sessions,
                                         session_locks, recent_activities,
                                         logged>> ]_vars

C6_Witness ==
    /\ ret.op = "leave"
    /\ ret.kind = "false"
    /\ Resident(ret.session)
    /\ ~Member(ret.session, ret.user)
    /\ ret.user \notin DOMAIN user_sessions

\* C7: activity log bound.  The stored log of a session holds the last
\* min(n, 100) of the n activities logged for it, in the order they were
\* logged.
C7_ActivityLogBound ==
    \A s \in DOMAIN recent_activities :
        LET log == recent_activities[s]
            n == logged[s]
        IN  /\ Len(log) = Min(n, ActivityLogCap)
            /\ \A i \in 1..Len(log) : log[i].seq = n - Len(log) + i

C7_Witness ==
    /\ logged["s1"] > ActivityLogCap
    /\ Len(recent_activities["s1"]) = ActivityLogCap

\* a call of handle_real_time_edit by a user whose role does not permit the
\* edit returns the insufficient-permissions error and changes nothing
RoleGate(s, u, sec) ==
    (EditCall(s, u, sec) /\ ~ValidateEditPermission(s, u, sec))
        => /\ ret'.kind = "perm"
           /\ ret'.bcast = {}
           /\ UNCHANGED <<active_sessions, session_locks, recent_activities,
                          logged, inflight>>

\* C8 as stated: the role gate, and no lock is ever held by a user whose
\* role does not permit editing.
C8_NoLockHeldWithoutRole ==
    [][ /\ \A s \in Sessions, sec \in Sections, u \in Users : RoleGate(s, u, sec)
        /\ \A s \in Sessions, sec \in Sections :
              Holder(s, sec)' # NoUser
                  => ValidateEditPermission(s, Holder(s, sec), sec)' ]_vars

\* C8 amended: the role gate, and no lock is ever acquired and no edit ever
\* applied by a user whose role does not permit editing at that moment.
C8_RoleGating ==
    [][ \A s \in Sessions, sec \in Sections, u \in Users :
          /\ RoleGate(s, u, sec)
          /\ (Holder(s, sec)' = u /\ Holder(s, sec) # u)
                => ValidateEditPermission(s, u, sec)
          /\ (ret'.user = u /\ Content(s, sec)' # Content(s, sec))
                => ValidateEditPermission(s, u, sec) ]_vars

C8_Witness ==
    /\ ret.op = "edit"
    /\ ret.kind = "perm"
    /\ Member(ret.session, ret.user)
    /\ active_sessions[ret.session].users[ret.user] = "viewer"

\* C9: advisory conflicts.  A call of handle_real_time_edit that returns a
\* conflict applies nothing to current_state, leaves every section lock as
\* it was, broadcasts nothing and logs nothing.
C9_AdvisoryConflict ==
    [][ \A s \in Sessions, sec \in Sections, u \in Users :
          (EditCall(s, u, sec) /\ ret'.kind = "conflict")
              => /\ ret'.bcast = {}
                 /\ UNCHANGED <<active_sessions, session_locks,
                                recent_activities, logged, inflight>> ]_vars

C9_Witness ==
    /\ ret.op = "edit"
    /\ ret.kind = "conflict"
    /\ Holder(ret.session, ret.section) = NoUser

\* C10: same-section serialization.  Whenever an edit is applied to a
\* section, the step is a call of handle_real_time_edit on that section by
\* the user who holds its lock after the step, the lock was free or already
\* that user's before it, and no other user has an applied edit of that
\* section still awaiting its broadcast.
C10_Serialization ==
    [][ \A s \in Sessions, sec \in Sections :
          (\/ (ret'.op = "edit" /\ ret'.kind = "awaiting"
                  /\ ret'.session = s /\ ret'.section = sec)
           \/ Content(s, sec)' # Content(s, sec))
              => /\ EditCall(s, ret'.user, sec)
                 /\ Holder(s, sec)' = ret'.user
                 /\ Holder(s, sec) \in {NoUser, ret'.user}
                 /\ \A v \in Users \ {ret'.user} :
                       ~(inflight[v].session = s /\ inflight[v].section = sec) ]_vars

C10_Witness ==
    /\ ret.op = "edit"
    /\ ret.kind = "locked"
    /\ \E v \in Users \ {ret.user} :
          /\ inflight[v].session = ret.session
          /\ inflight[v].section = ret.section

\* C11: a failed join leaves no trace.  Whenever join_session returns false,
\* the membership of the session and user_sessions are what they were before
\* the call.
C11_FailedJoinLeavesNoTrace ==
    [][ (ret'.op = "join" /\ ret'.kind = "false")
            => UNCHANGED <<active_sessions, user_sessions>> ]_vars

C13_NoFatalErrors == ret.kind # "exception"

\* C18: an apply failure is contained.  When _apply_edit returns false or
\* raises, the call fails without a broadcast and without an edit_content
\* record, no edit is left awaiting and the session, its members and its
\* content are as before; and an edit reported as done is the content of
\* its section.
C18_ApplyFailureContained ==
    [][ \A s \in Sessions, sec \in Sections, u \in Users :
          /\ (EditCall(s, u, sec) /\ ret'.kind \in {"apply_false", "apply_raised"})
                => /\ ret'.bcast = {}
                   /\ UNCHANGED <<active_sessions, user_sessions,
                                  recent_activities, logged, inflight>>
                   /\ Member(s, u)
          /\ (/\ ret'.op = "edit" /\ ret'.kind = "ok"
              /\ ret'.session = s /\ ret'.section = sec)
                => Content(s, sec)' = ret'.data ]_vars

C18_Witness ==
    /\ ret.op = "edit"
    /\ ret.kind \in {"apply_false", "apply_raised"}
    /\ Member(ret.session, ret.user)
    /\ recent_activities[ret.session] = << >>

\* the data of the last change staged for sec, or old when none is staged
LastStaged(changes, sec, old) ==
    LET at == {i \in 1..Len(changes) : changes[i].section = sec}
    IN  IF at = {} THEN old
        ELSE changes[CHOOSE i \in at : \A k \in at : k <= i].data

\* C20: sync drains pending changes.  A sync of a resident session whose I/O
\* succeeds leaves every section with the data of the last change staged for
\* it (the changes are applied in insertion order), empties pending_changes,
\* hands that full state to the persist call, advances last_sync by one and
\* broadcasts sync_complete; sync_complete is broadcast by no other sync; a
\* sync of an unknown session answers "Session not found" and changes nothing.
C20_SyncDrainsPending ==
    [][ \A s \in Sessions :
          (ret'.op = "sync" /\ ret'.session = s)
              => IF ~Resident(s)
                 THEN /\ ret'.kind = "not_found"
                      /\ ret'.bcast = {}
                      /\ UNCHANGED <<active_sessions, user_sessions,
                                     session_locks, recent_activities>>
                 ELSE /\ ret'.kind = "ok"
                         => /\ \A sec \in Sections :
                                  Content(s, sec)' =
                                     LastStaged(active_sessions[s].pending_changes,
                                                sec, Content(s, sec))
                            /\ active_sessions'[s].pending_changes = << >>
                            /\ ret'.data = active_sessions'[s].current_state
                            /\ active_sessions'[s].last_sync
                                  = active_sessions[s].last_sync + 1
                            /\ ret'.bcast = {"sync_complete"}
                      /\ "sync_complete" \in ret'.bcast => ret'.kind = "ok" ]_vars

C20_Witness ==
    /\ ret.op = "sync"
    /\ ret.kind = "ok"
    /\ active_sessions[ret.session].pending_changes = << >>
    /\ active_sessions[ret.session].last_sync = 1
    /\ \A sec \in Sections : Content(ret.session, sec) # NoData

\* C17: analytics is read-only.  A call of get_session_analytics, for a
\* resident or an unknown session, changes nothing of the manager's state;
\* for an unknown session it answers "Session not found", for a resident one
\* its counts are those of the members and of the stored activity log.
C17_AnalyticsReadOnly ==
    [][ \A s \in Sessions :
          (ret'.op = "analytics" /\ ret'.session = s)
              => /\ UNCHANGED <<active_sessions, user_sessions, session_locks,
                                recent_activities, logged, inflight>>
                 /\ IF Resident(s)
                    THEN /\ ret'.kind = "ok"
                         /\ ret'.data.total_users
                               = Cardinality(DOMAIN active_sessions[s].users)
                         /\ ret'.data.total_activities = Len(recent_activities[s])
                    ELSE ret'.kind = "not_found" ]_vars

C17_Witness ==
    /\ ret.op = "analytics"
    /\ ret.kind = "ok"
    /\ ret.data.total_activities > 0
    /\ ret.data.total_users > 0

\* C19: comments need no lock.  A comment of a member never changes
\* session_locks or the section contents and is never refused for a lock; it
\* is stored under a new comment id after the existing comments, which stay
\* as they were; when the call succeeds exactly one add_comment record of
\* that user is appended to the activity log.
C19_CommentsNeedNoLock ==
    [][ \A s \in Sessions, u \in Users, sec \in Sections :
          (/\ ret'.op = "comment" /\ ret'.session = s
           /\ ret'.user = u /\ ret'.section = sec
           /\ Member(s, u))
              => LET old == active_sessions[s].comments
                     new == active_sessions'[s].comments
                 IN  /\ UNCHANGED session_locks
                     /\ ret'.kind \in {"ok", "raised"}
                     /\ active_sessions'[s].current_state
                           = active_sessions[s].current_state
                     /\ Len(new) = Len(old) + 1
                     /\ SubSeq(new, 1, Len(old)) = old
                     /\ new[Len(new)].user = u
                     /\ new[Len(new)].section = sec
                     /\ ret'.kind = "ok"
                           => /\ ret'.data = Len(new)
                              /\ ret'.bcast = {"comment"}
                              /\ Len(recent_activities'[s])
                                    = Len(recent_activities[s]) + 1
                              /\ SubSeq(recent_activities'[s], 1,
                                        Len(recent_activities[s]))
                                    = recent_activities[s]
                              /\ Last(recent_activities'[s]).type = "add_comment"
                              /\ Last(recent_activities'[s]).user = u ]_vars

C19_Witness ==
    /\ ret.op = "comment"
    /\ ret.kind = "ok"
    /\ Holder(ret.session, ret.section) \notin {NoUser, ret.user}
    /\ Len(active_sessions[ret.session].comments) = 2

\* the time a timestamp denotes, in fractions of a second
Chron(stamp) ==
    stamp[1] * (MaxFraction + 1) + (IF Len(stamp) = 2 THEN stamp[2] ELSE 0)

\* the last step resolved a conflict with the given strategy
Resolved(strategy) ==
    /\ ret.op = "resolve"
    /\ ret.kind = "ok"
    /\ ret.data.result.resolution_strategy = strategy

\* C14: timestamp-priority determinism.  When the two contents of a conflict
\* carry timestamps of different times, timestamp_priority reports success
\* and returns as winner the content and the user of the later time, be it
\* content1/user1 or content2/user2; the other content is not returned.
C14_TimestampPriority ==
    Resolved("timestamp_priority")
       => LET conflict == ret.data.conflict
              result == ret.data.result
              stamp1 == conflict.content1.timestamp
              stamp2 == conflict.content2.timestamp
          IN  (/\ stamp1 \in Timestamps /\ stamp2 \in Timestamps
               /\ Chron(stamp1) # Chron(stamp2))
                 => /\ result.success
                    /\ Chron(stamp1) < Chron(stamp2)
                          => /\ result.resolved_content = conflict.content2
                             /\ result.winning_user = conflict.user2_id
                    /\ Chron(stamp2) < Chron(stamp1)
                          => /\ result.resolved_content = conflict.content1
                             /\ result.winning_user = conflict.user1_id

C14_Witness ==
    /\ Resolved("timestamp_priority")
    /\ ret.data.conflict.content1.timestamp = <<1>>
    /\ ret.data.conflict.content2.timestamp = <<0, 2>>
    /\ ret.data.result.winning_user = "A"
    /\ ret.data.result.success

\* the replace regions of the line diff of two contents, each as the pair of
\* its lines on the two sides
ReplaceRegions(text1, text2) ==
    LET lines1 == SplitLines(text1)
        lines2 == SplitLines(text2)
        ops == GetOpcodes(lines1, lines2)
    IN  { <<Slice(lines1, ops[k].i1, ops[k].i2), Slice(lines2, ops[k].j1, ops[k].j2)>> :
             k \in {n \in 1..Len(ops) : ops[n].tag = "replace"} }

\* the two sides have the same number of lines and every pair of
\* corresponding lines has similarity at least 0.5
SimilarLines(region) ==
    /\ Len(region[1]) = Len(region[2])
    /\ \A i \in 1..Len(region[1]) :
          ~FracLess(Ratio(region[1][i], region[2][i]), 1, 2)

\* the two sides differ in their number of lines, or two corresponding lines
\* that are both non-blank have similarity below 0.5
DissimilarText(region) ==
    \/ Len(region[1]) # Len(region[2])
    \/ \E i \in 1..Len(region[1]) :
          /\ ~IsBlank(region[1][i])
          /\ ~IsBlank(region[2][i])
          /\ FracLess(Ratio(region[1][i], region[2][i]), 1, 2)

\* the merge was left to the users: no merged content, merge_type
\* manual_required, and at least one conflict region listed
ManualRequired(result) ==
    /\ result.merged_content = None
    /\ result.merge_metadata.merge_type = "manual_required"
    /\ Len(result.merge_metadata.conflicts) >= 1

RECURSIVE RegionsInOrder(_, _, _)
\* the equal regions, the inserted regions and both sides of the replace
\* regions, first side first, in document order
RegionsInOrder(ops, lines1, lines2) ==
    IF ops = << >> THEN << >>
    ELSE LET op == Head(ops)
             first == IF op.tag \in {"equal", "replace"}
                      THEN Slice(lines1, op.i1, op.i2) ELSE << >>
             second == IF op.tag \in {"insert", "replace"}
                       THEN Slice(lines2, op.j1, op.j2) ELSE << >>
         IN  first \o second \o RegionsInOrder(Tail(ops), lines1, lines2)

\* C16: compatible auto-merge.  When every replace region of the line diff
\* of the two contents is line-count-equal with every line pair of
\* similarity at least 0.5, merge_changes auto-merges: merge_type automatic,
\* no conflict listed, and the merged content is the equal regions, the
\* inserted regions and both sides of each replace region in document order.
C16_CompatibleAutoMerge ==
    LET text1 == ret.data.conflict.content1.content
        text2 == ret.data.conflict.content2.content
    IN  (/\ Resolved("merge_changes")
         /\ \A region \in ReplaceRegions(text1, text2) : SimilarLines(region))
            => /\ ret.data.result.merge_metadata.merge_type = "automatic"
               /\ ret.data.result.merged_content =
                     Some(JoinLines(RegionsInOrder(
                             GetOpcodes(SplitLines(text1), SplitLines(text2)),
                             SplitLines(text1), SplitLines(text2))))

C22_DefaultStrategyTable ==
    ret.op = "resolve"
       => LET conflict == ret.data.conflict
              preference == ret.data.preference
              result == ret.data.result
              type == conflict.conflict_type
              tabled == CASE type = "concurrent_edit" -> "merge_changes"
                          [] type = "overwrite_conflict" -> "user_choice"
                          [] type = "section_lock_conflict" -> "timestamp_priority"
                          [] type = "permission_conflict" -> "role_priority"
                          [] OTHER -> "none"
              used == IF preference # NoPreference THEN preference ELSE tabled
          IN  (preference # NoPreference \/ type \in ConflictTypes)
                 => /\ ret.kind = "ok"
                    /\ result.resolution_strategy = used
                    /\ used = "user_choice"
                          => /\ ~result.success
                             /\ result.requires_user_input
                             /\ result.conflict_options.option_1.content
                                    = conflict.content1
                             /\ result.conflict_options.option_2.content
                                    = conflict.content2

C22_Witness ==
    /\ Resolved("user_choice")
    /\ ret.data.conflict.conflict_type = "concurrent_edit"
    /\ ret.data.preference = "user_choice"
    /\ ret.data.result.requires_user_input
    /\ ~ret.data.result.success

\* C29: merge success means merged content.  A merge_changes result reports
\* success only when it carries a merged content, and two edits with the
\* same content are merged automatically to that content.
C29_MergeSuccessMeansMerged ==
    Resolved("merge_changes")
       => LET conflict == ret.data.conflict
              result == ret.data.result
          IN  /\ result.success => result.merged_content # None
              /\ conflict.content1.content = conflict.content2.content
                    => /\ result.success
                       /\ result.merged_content
                              = Some(conflict.content1.content)

\* C30: a conflict whose type is not one of the four known types, resolved
\* without a preference, falls back to user_choice: the call returns a result
\* that names user_choice, asks for user input and reports no success.
C30_UnknownTypeFallsBack ==
    (/\ ret.op = "resolve"
     /\ ret.data.preference = NoPreference
     /\ ret.data.conflict.conflict_type \notin ConflictTypes)
       => /\ ret.kind = "ok"
          /\ ret.data.result.resolution_strategy = "user_choice"
          /\ ret.data.result.requires_user_input
          /\ ~ret.data.result.success

\* C26: no orphaned lock from a failed edit.  A call of handle_real_time_edit
\* that fails at the apply step leaves the lock table as it was before the
\* call.
C26_FailedEditLeavesNoLock ==
    [][ \A s \in Sessions, sec \in Sections, u \in Users :
          (EditCall(s, u, sec) /\ ret'.kind \in {"apply_false", "apply_raised"})
             => UNCHANGED session_locks ]_vars

\* C27: a failed comment leaves the state unchanged.  Whenever
\* add_collaborative_comment reports failure, the session state, its comments
\* included, is the same as before the call.
C27_FailedCommentLeavesState ==
    [][ (ret'.op = "comment" /\ ret'.kind # "ok")
           => UNCHANGED active_sessions ]_vars

\* C24: membership index consistency.  After any sequence of joins and
\* leaves, failed ones included, a session is in user_sessions[u] exactly
\* when u is among the users of that session, and user_sessions maps no user
\* to an empty set.
C24_MembershipIndexConsistent ==
    /\ \A s \in Sessions, u \in Users :
          (u \in DOMAIN user_sessions /\ s \in user_sessions[u])
             <=> (s \in DOMAIN active_sessions
                    /\ u \in DOMAIN active_sessions[s].users)
    /\ \A u \in DOMAIN user_sessions : user_sessions[u] # {}

\* a join that failed part-way has left its user in both indexes
C24_Witness ==
    /\ ret.op = "join" /\ ret.kind = "false" /\ ret.user = "B"
    /\ "s1" \in DOMAIN active_sessions
    /\ DOMAIN active_sessions["s1"].users = {"B"}
    /\ DOMAIN user_sessions = {"B"}
    /\ user_sessions["B"] = {"s1"}

\* C28: the owner role is reserved.  In every reachable state a member holds
\* the role owner in a session only if that member is the session's owner;
\* join_session grants owner to nobody else, whatever role was requested.
C28_OwnerRoleReserved ==
    \A s \in DOMAIN active_sessions :
       \A u \in DOMAIN active_sessions[s].users :
          active_sessions[s].users[u] = "owner"
             => u = active_sessions[s].owner

\* C23: a created session is joinable across entry points.  When the manager
\* of a request held a session, the next request, served by the manager
\* constructed for it, can join that session and gets its analytics instead
\* of "Session not found".
C23_CreatedSessionIsServed ==
    [][ (/\ ret.op = "manager"
         /\ ret'.op \in {"join", "analytics"}
         /\ ret'.session \in ret.data)
           => ret'.kind \notin {"false", "not_found"} ]_vars

====
